---- MODULE Spec2Model ----
(***************************************************************************)
(* LetsCycleToRecycle: the intake transaction (register_device_with_order) *)
(* and the public lookup (get_device_by_mac) of services.py, run by         *)
(* concurrent request workers against one Oracle store.                      *)
(*                                                                           *)
(* Text is a sequence of glyphs: the glyph " " is whitespace, every other   *)
(* glyph is a run of non-whitespace characters ("Main", "2.5", ".png").     *)
(* A float is held in tenths (2.5 is 25).                                    *)
(***************************************************************************)
EXTENDS Integers, Sequences, FiniteSets, TLC

\* ------------------------------------------------------------------ bounds
\* the number of calls (intakes and lookups) the workers take in one run
MaxCalls == 3

\* the request workers, in the order in which a free one is handed a request
Workers == <<"w1", "w2">>

\* the store's date on the day of the run
Days == {0}

\* ------------------------------------------------------------ text helpers
SP == " "

RECURSIVE LStrip(_)
LStrip(s) == IF s # <<>> /\ Head(s) = SP THEN LStrip(Tail(s)) ELSE s

RECURSIVE RStrip(_)
RStrip(s) ==
    IF s # <<>> /\ s[Len(s)] = SP THEN RStrip(SubSeq(s, 1, Len(s) - 1)) ELSE s

\* str.strip()
Strip(s) == RStrip(LStrip(s))

\* the first whitespace-free run of s (s does not start with whitespace)
RECURSIVE FirstToken(_)
FirstToken(s) ==
    IF s = <<>> \/ Head(s) = SP THEN <<>> ELSE <<Head(s)>> \o FirstToken(Tail(s))

\* str.split(): the whitespace-delimited tokens, none of them empty
RECURSIVE Split(_)
Split(s) ==
    LET t == LStrip(s)
        w == FirstToken(t)
    IN  IF t = <<>> THEN <<>>
        ELSE <<w>> \o Split(SubSeq(t, Len(w) + 1, Len(t)))

\* " ".join(parts)
RECURSIVE JoinSp(_)
JoinSp(parts) ==
    IF parts = <<>> THEN <<>>
    ELSE IF Len(parts) = 1 THEN parts[1]
    ELSE parts[1] \o <<SP>> \o JoinSp(Tail(parts))

DigitGlyph == <<"0", "1", "2", "3", "4", "5", "6", "7", "8", "9">>

\* str(n) for n >= 0
RECURSIVE IntToStr(_)
IntToStr(n) ==
    IF n < 10 THEN <<DigitGlyph[n + 1]>>
    ELSE IntToStr(n \div 10) \o <<DigitGlyph[(n % 10) + 1]>>

\* ------------------------------------------------------- services helpers
BASE_TRACK_URL == <<"http://localhost:5000/track/">>

\* _split_customer_name
SplitCustomerName(full_name) ==
    LET parts == Split(Strip(full_name))
    IN  IF parts = <<>> THEN <<<<>>, <<>>>>
        ELSE IF Len(parts) = 1 THEN <<parts[1], <<>>>>
        ELSE <<parts[1], JoinSp(Tail(parts))>>

\* float(text): the literals the model submits, in tenths
FloatLiteral == ("2.5" :> 25) @@ ("7" :> 70) @@ ("1.0" :> 10)

FloatParses(text) == Len(text) = 1 /\ text[1] \in DOMAIN FloatLiteral

\* the text handed to float() untrimmed, and float() refusing blanks
ParseWeightNoStrip(value, default) ==
    IF value = <<>> THEN default
    ELSE IF FloatParses(value) THEN FloatLiteral[value[1]]
    ELSE default

\* _parse_weight
ParseWeight(value, default) ==
    LET v == Strip(value)
    IN  IF v = <<>> THEN default
        ELSE IF FloatParses(v) THEN FloatLiteral[v[1]]
        ELSE default

\* form_data.get(key, default)
FormGet(form, key, default) ==
    IF key \in DOMAIN form THEN form[key] ELSE default

DefaultWeight == 10

\* lines 171-188: the normalised fields of one intake
Normalize(form) ==
    LET name  == Strip(FormGet(form, "customer_name", <<>>))
        split == SplitCustomerName(name)
    IN  [ mac_addr       |-> Strip(FormGet(form, "mac_address", <<>>)),
          device_type    |-> Strip(FormGet(form, "device_type", <<>>)),
          make           |-> Strip(FormGet(form, "make", <<>>)),
          model          |-> Strip(FormGet(form, "model", <<>>)),
          serial_no      |-> Strip(FormGet(form, "serial_no", <<>>)),
          customer_name  |-> name,
          customer_email |-> Strip(FormGet(form, "customer_email", <<>>)),
          dropoff_site   |-> Strip(FormGet(form, "dropoff_site", <<"Main", SP, "Facility">>)),
          status         |-> Strip(FormGet(form, "status", <<"Received">>)),
          notes          |-> Strip(FormGet(form, "notes", <<>>)),
          hazard_class   |-> Strip(FormGet(form, "hazard_class", <<"Medium">>)),
          weight_kg      |-> ParseWeight(FormGet(form, "weight_kg", <<"1.0">>), DefaultWeight),
          cust_first     |-> IF split[1] = <<>> THEN <<"Unknown">> ELSE split[1],
          cust_last      |-> IF split[2] = <<>> THEN <<"Customer">> ELSE split[2] ]

\* ------------------------------------------------------------------ inputs
FullDetails ==
    [ device_type  |-> <<SP, "Laptop">>,
      make         |-> <<"Dell", SP>>,
      model        |-> <<"X1">>,
      serial_no    |-> <<"S1">>,
      dropoff_site |-> <<"North", SP, "Depot">>,
      status       |-> <<"Checked">>,
      notes        |-> <<"ok">>,
      hazard_class |-> <<"High">>,
      weight_kg    |-> <<"2.5", SP>> ]

BlankDetails ==
    [ device_type  |-> <<>>,
      make         |-> <<>>,
      model        |-> <<>>,
      serial_no    |-> <<>>,
      dropoff_site |-> <<SP>>,
      status       |-> <<>>,
      notes        |-> <<>>,
      hazard_class |-> <<SP>>,
      weight_kg    |-> <<"abc">> ]

\* a submitted form without the detail keys
NoDetails == [k \in {} |-> <<>>]


LookupInputs == {<<"m1", SP>>, <<SP>>}

MkForm(mac, email, name, details) ==
    [ mac_address    |-> mac,
      customer_email |-> email,
      customer_name  |-> name ] @@ details

\* the forms submitted: two share an email under different names and have
\* different MAC addresses, the third has no email, a blank name and the MAC
\* address of the first
FormList ==
    << MkForm(<<"m1">>, <<"e1">>, <<"James", SP, SP, "A", SP, "Smith">>, FullDetails),
      MkForm(<<SP, "m2">>, <<"e1", SP>>, <<"DIPINA">>, BlankDetails),
      MkForm(<<"m1", SP>>, <<>>, <<SP>>, NoDetails) >>

\* a request is known by the position of its form in FormList
Forms == DOMAIN FormList

\* lines 171-188, once per form
NormOf == [i \in Forms |-> Normalize(FormList[i])]

\* the Employee table (read only) and the caller identities tried
Employee ==
    { [EmpNo |-> 101, EmpEmail |-> "tech01"],
      [EmpNo |-> 102, EmpEmail |-> "admin01"] }

Callers == {"tech01", "ghost"}

\* ------------------------------------------------------------------- state
VARIABLES
    db,        \* committed rows of Customer, RecyclingOrder, Device, OrdLine
    tx,        \* per worker: rows written by its open transaction
    seq,       \* last value issued by seq_customer, seq_order, seq_device
    issued,    \* history: the values each sequence returned, in issue order
    qr_files,  \* the PNG files in QR_FOLDER: name and encoded payload
    today,     \* the store's SYSDATE, as a day number
    pc,        \* per worker: position in the call it is running
    loc,       \* per worker: the locals of the call it is running
    conn,      \* per worker: the connection its call acquired
    log,       \* history: one record per committed intake
    calls,     \* number of calls begun
    session,   \* the Flask session of the browser: key to value
    resp,      \* the route that served the last request and its response
    auth,      \* history: the last successful login not followed by a logout
    invoked    \* history: the calls of register_device_with_order by the route

\* the state of the web layer
web == <<session, resp, auth, invoked>>

vars == <<db, tx, seq, issued, qr_files, today, pc, loc, conn, log, calls, web>>

WorkerSet == {Workers[i] : i \in DOMAIN Workers}

Tables == {"Customer", "RecyclingOrder", "Device", "OrdLine"}

EmptyTx == [t \in Tables |-> {}]

\* the locals of a worker that runs no call
Idle ==
    [ kind             |-> "none",
      user             |-> "",
      form             |-> 0,
      mac              |-> <<>>,
      emp_no           |-> 0,
      existing_cust_no |-> 0,
      cust_no_to_use   |-> 0,
      ord_no           |-> 0,
      device_id        |-> 0,
      qr_filename      |-> <<>>,
      seen             |-> {},
      exc              |-> "none",
      result           |-> {} ]

\* a session without keys
NoSession == [k \in {} |-> ""]

Init ==
    /\ db = EmptyTx
    /\ tx = [p \in WorkerSet |-> EmptyTx]
    /\ seq = [customer |-> 0, order |-> 0, device |-> 0]
    /\ issued = [customer |-> <<>>, order |-> <<>>, device |-> <<>>]
    /\ qr_files = {}
    /\ today \in Days
    /\ pc = [p \in WorkerSet |-> "idle"]
    /\ loc = [p \in WorkerSet |-> Idle]
    /\ conn = [p \in WorkerSet |-> "none"]
    /\ log = {}
    /\ calls = 0
    /\ session = NoSession
    /\ resp = [route |-> "none", out |-> "none"]
    /\ auth = ""
    /\ invoked = {}

\* the normalised fields of the intake worker p runs
N(p) == NormOf[loc[p].form]

\* what a statement of worker p reads: committed rows and its own writes
Visible(p, t) == db[t] \cup tx[p][t]

DeviceIds == {d.DeviceID : d \in db.Device}

\* history: the committed customers that carry the email of an intake
SameEmail(d, n) ==
    IF n.customer_email = <<>> THEN {}
    ELSE {c.CustNo : c \in {x \in d.Customer : x.CustEmail = n.customer_email}}

\* ------------------------------------------------------- intake: pieces
\* a sequence that hands its current value out again
NextValRepeats(last) == IF last = 0 THEN 1 ELSE last

\* seq_x.NEXTVAL: the store's sequence never hands a value out twice and a
\* rollback does not give a value back
NextVal(last) == last + 1

\* the check of the fetched row left out
EmpRowNeverMissing(rows) == FALSE

\* "if not row: raise" after the Employee SELECT
EmpRowMissing(rows) == rows = {}

\* the SELECT by email run for an empty email too
HasEmailAlways(n) == TRUE

\* line 212: "if customer_email:"
HasEmail(n) == n.customer_email # <<>>

\* SELECT CustNo FROM Customer WHERE CustEmail = :email
MatchingCustomers(rows, email) == {c \in rows : c.CustEmail = email}

\* a Customer row made also when one was found
AfterSelectAlwaysCreates(found) == "cust_create"

\* lines 222-224: with an existing key the Customer INSERT is skipped
AfterSelect(found) == IF found THEN "ord_create" ELSE "cust_create"

CustomerRow(cust_no, n) ==
    [ CustNo        |-> cust_no,
      CustFirstName |-> n.cust_first,
      CustLastName  |-> n.cust_last,
      CustEmail     |-> n.customer_email ]

\* the customer key bound to :emp_no
OrderRowWrongEmp(ord_no, date, cust_no, emp_no, n) ==
    [ OrdNo       |-> ord_no,
      OrdDate     |-> date,
      CustNo      |-> cust_no,
      EmpNo       |-> cust_no,
      DropOffSite |-> n.dropoff_site ]

OrderRow(ord_no, date, cust_no, emp_no, n) ==
    [ OrdNo       |-> ord_no,
      OrdDate     |-> date,
      CustNo      |-> cust_no,
      EmpNo       |-> emp_no,
      DropOffSite |-> n.dropoff_site ]

DeviceRow(device_id, qr, cust_no, n) ==
    [ DeviceID    |-> device_id,
      DeviceType  |-> n.device_type,
      Make        |-> n.make,
      Model       |-> n.model,
      SerialNo    |-> n.serial_no,
      QRCode      |-> qr,
      IotMacAddr  |-> n.mac_addr,
      HazardClass |-> n.hazard_class,
      WeightKg    |-> n.weight_kg,
      Status      |-> n.status,
      OrigCustNo  |-> cust_no ]

OrdLineRow(ord_no, device_id, n) ==
    [ OrdNo      |-> ord_no,
      LineNo     |-> 1,
      DeviceID   |-> device_id,
      ActionCode |-> "Recycle",
      Qty        |-> 1,
      Notes      |-> n.notes ]

\* _generate_qr_for_mac: the payload, the file name, the saved file
TrackUrl(mac_addr) == BASE_TRACK_URL \o mac_addr

\* one file name for every device
QrFilenameFixed(device_id) == <<"qr", ".png">>

QrFilename(device_id) == IntToStr(device_id) \o <<".png">>

\* the image is made but never saved
SaveQrNothing(files, name, url) == files

SaveQr(files, name, url) ==
    {f \in files : f.name # name} \cup {[name |-> name, payload |-> url]}

\* a commit issued before the OrdLine row is written
CommitWithoutLine(d, t) ==
    [k \in Tables |-> IF k = "OrdLine" THEN d[k] ELSE d[k] \cup t[k]]

\* conn.commit(): every pending row becomes visible at once
CommitTables(d, t) == [k \in Tables |-> d[k] \cup t[k]]

\* conn.rollback(), and the store's rollback of an open transaction on close
RollbackTx(t) == EmptyTx

\* ------------------------------------------------------ intake: the steps
\* a request goes to the first free worker, while the run has calls left
Dispatch(p) ==
    /\ calls < MaxCalls
    /\ pc[p] = "idle"
    /\ \E i \in DOMAIN Workers :
          /\ Workers[i] = p
          /\ \A j \in 1..(i - 1) : pc[Workers[j]] # "idle"

Goto(p, to) == pc' = [pc EXCEPT ![p] = to]

\* lines 322-329: an exception inside the try block. The except clause rolls
\* back and raises again, the finally clause closes cursor and connection,
\* and the frame of the call is gone
Abort(p, e) ==
    /\ tx' = [tx EXCEPT ![p] = RollbackTx(tx[p])]
    /\ conn' = [conn EXCEPT ![p] = "closed"]
    /\ loc' = [loc EXCEPT ![p] = [Idle EXCEPT !.kind = "intake", !.exc = e]]
    /\ Goto(p, "raised")

\* lines 171-206: the fields are normalised; the connection and the cursor
\* are acquired before the try block; inside it the caller's EmpNo is read
\* from Employee
StartIntake(p, form, user) ==
    LET n    == NormOf[form]
        rows == {e \in Employee : e.EmpEmail = user}
        fail(e, c) ==
            /\ loc' = [loc EXCEPT ![p] = [Idle EXCEPT !.kind = "intake", !.exc = e]]
            /\ conn' = [conn EXCEPT ![p] = c]
            /\ Goto(p, "raised")
    IN  \/ /\ ~EmpRowMissing(rows)
           /\ \E e \in (IF rows = {} THEN {[EmpNo |-> 0]} ELSE rows) :
                 loc' = [loc EXCEPT ![p] =
                           [Idle EXCEPT !.kind = "intake", !.user = user,
                                        !.form = form,
                                        !.emp_no = e.EmpNo,
                                        !.seen = SameEmail(db, n)]]
           /\ conn' = [conn EXCEPT ![p] = "open"]
           /\ Goto(p, IF HasEmail(n) THEN "cust_select" ELSE "cust_create")
        \/ \* no Employee row: raise, roll back, close
           /\ EmpRowMissing(rows)
           /\ fail("NoEmployee", "closed")
        \/ \* the Employee SELECT raises: roll back, close
           fail("StoreError", "closed")
        \/ \* get_connection() raises: there is no connection
           fail("StoreError", "none")
        \/ \* conn.cursor() raises: nothing closes the connection
           fail("StoreError", "open")

\* a call of register_device_with_order arrives at a free worker
BeginIntake(p) ==
    /\ Dispatch(p)
    /\ calls' = calls + 1
    /\ \E form \in Forms, user \in Callers : StartIntake(p, form, user)
    /\ UNCHANGED <<db, tx, seq, issued, qr_files, today, log, web>>

\* lines 211-223
CustSelect(p) ==
    /\ pc[p] = "cust_select"
    /\ LET rows == MatchingCustomers(Visible(p, "Customer"), N(p).customer_email)
       IN  \/ /\ rows # {}
              /\ \E c \in rows :
                    loc' = [loc EXCEPT ![p].existing_cust_no = c.CustNo,
                                       ![p].cust_no_to_use = c.CustNo]
              /\ Goto(p, AfterSelect(TRUE))
              /\ UNCHANGED <<tx, conn>>
           \/ /\ rows = {}
              /\ Goto(p, AfterSelect(FALSE))
              /\ UNCHANGED <<loc, tx, conn>>
           \/ Abort(p, "StoreError")
    /\ UNCHANGED <<db, seq, issued, qr_files, today, log, calls, web>>

\* lines 225-240: seq_customer.NEXTVAL, then the Customer INSERT
CustCreate(p) ==
    /\ pc[p] = "cust_create"
    /\ LET k == NextVal(seq.customer)
       IN  \/ /\ seq' = [seq EXCEPT !.customer = k]
              /\ issued' = [issued EXCEPT !.customer = Append(@, k)]
              /\ \/ /\ loc' = [loc EXCEPT ![p].cust_no_to_use = k]
                    /\ tx' = [tx EXCEPT ![p].Customer =
                                @ \cup {CustomerRow(k, N(p))}]
                    /\ Goto(p, "ord_create")
                    /\ UNCHANGED conn
                 \/ \* the INSERT raises: the value stays consumed
                    Abort(p, "StoreError")
           \/ \* NEXTVAL raises
              /\ Abort(p, "StoreError")
              /\ UNCHANGED <<seq, issued>>
    /\ UNCHANGED <<db, qr_files, today, log, calls, web>>

\* lines 245-260: seq_order.NEXTVAL, then the RecyclingOrder INSERT
OrdCreate(p) ==
    /\ pc[p] = "ord_create"
    /\ LET k == NextVal(seq.order)
       IN  \/ /\ seq' = [seq EXCEPT !.order = k]
              /\ issued' = [issued EXCEPT !.order = Append(@, k)]
              /\ \/ /\ loc' = [loc EXCEPT ![p].ord_no = k]
                    /\ tx' = [tx EXCEPT ![p].RecyclingOrder =
                                @ \cup {OrderRow(k, today, loc[p].cust_no_to_use,
                                                 loc[p].emp_no, N(p))}]
                    /\ Goto(p, "dev_create")
                    /\ UNCHANGED conn
                 \/ Abort(p, "StoreError")
           \/ /\ Abort(p, "StoreError")
              /\ UNCHANGED <<seq, issued>>
    /\ UNCHANGED <<db, qr_files, today, log, calls, web>>

\* lines 265-293 and 64-78: seq_device.NEXTVAL, the QR code, the Device INSERT
DevCreate(p) ==
    /\ pc[p] = "dev_create"
    /\ LET k    == NextVal(seq.device)
           name == QrFilename(k)
       IN  \/ /\ seq' = [seq EXCEPT !.device = k]
              /\ issued' = [issued EXCEPT !.device = Append(@, k)]
              /\ \/ /\ qr_files' = SaveQr(qr_files, name, TrackUrl(N(p).mac_addr))
                    /\ \/ /\ loc' = [loc EXCEPT ![p].device_id = k,
                                                ![p].qr_filename = name]
                          /\ tx' = [tx EXCEPT ![p].Device =
                                      @ \cup {DeviceRow(k, name, loc[p].cust_no_to_use,
                                                        N(p))}]
                          /\ Goto(p, "line_insert")
                          /\ UNCHANGED conn
                       \/ \* the INSERT raises: the file stays
                          Abort(p, "StoreError")
                 \/ \* qrcode.make or img.save raises
                    /\ Abort(p, "StoreError")
                    /\ UNCHANGED qr_files
           \/ /\ Abort(p, "StoreError")
              /\ UNCHANGED <<seq, issued, qr_files>>
    /\ UNCHANGED <<db, today, log, calls, web>>

\* lines 298-312: the OrdLine INSERT
LineInsert(p) ==
    /\ pc[p] = "line_insert"
    /\ \/ /\ tx' = [tx EXCEPT ![p].OrdLine =
                      @ \cup {OrdLineRow(loc[p].ord_no, loc[p].device_id, N(p))}]
          /\ Goto(p, "commit")
          /\ UNCHANGED <<loc, conn>>
       \/ Abort(p, "StoreError")
    /\ UNCHANGED <<db, seq, issued, qr_files, today, log, calls, web>>

\* lines 314-320 and 327-329: the commit, the returned keys, the close
Commit(p) ==
    /\ pc[p] = "commit"
    /\ \/ /\ db' = CommitTables(db, tx[p])
          /\ tx' = [tx EXCEPT ![p] = EmptyTx]
          /\ conn' = [conn EXCEPT ![p] = "closed"]
          /\ log' = log \cup {[ device_id |-> loc[p].device_id,
                                ord_no    |-> loc[p].ord_no,
                                cust_no   |-> loc[p].cust_no_to_use,
                                reused    |-> loc[p].existing_cust_no # 0,
                                user      |-> loc[p].user,
                                form      |-> loc[p].form ]}
          /\ loc' = [loc EXCEPT ![p] =
                       [Idle EXCEPT !.kind = "intake",
                                    !.result = {[ device_id   |-> loc[p].device_id,
                                                  qr_filename |-> loc[p].qr_filename,
                                                  mac_addr    |-> N(p).mac_addr ]}]]
          /\ Goto(p, "returned")
       \/ \* the commit raises
          /\ Abort(p, "StoreError")
          /\ UNCHANGED <<db, log>>
    /\ UNCHANGED <<seq, issued, qr_files, today, calls, web>>

\* ------------------------------------------------------------ the lookup
\* TO_CHAR(r.OrdDate, 'YYYY-MM-DD')
ToCharDate(day) == <<"2025-01-">> \o IntToStr(day + 1)

\* lines 101-119: the joined rows for one MAC address, over committed rows
JoinByMac(d, mac) ==
    { [ DeviceType    |-> dv.DeviceType,
        Make          |-> dv.Make,
        Model         |-> dv.Model,
        SerialNo      |-> dv.SerialNo,
        HazardClass   |-> dv.HazardClass,
        WeightKg      |-> dv.WeightKg,
        Status        |-> dv.Status,
        DropOffSite   |-> r.DropOffSite,
        OrdDate       |-> ToCharDate(r.OrdDate),
        CustFirstName |-> c.CustFirstName,
        CustLastName  |-> c.CustLastName ] :
      <<dv, ol, r, c>> \in
        { q \in d.Device \X d.OrdLine \X d.RecyclingOrder \X d.Customer :
            /\ q[1].IotMacAddr = mac
            /\ q[2].DeviceID = q[1].DeviceID
            /\ q[3].OrdNo = q[2].OrdNo
            /\ q[4].CustNo = q[3].CustNo } }

Timeline == <<"Received", "Under Recycle Check", "In Laboratory", "Recycled">>

\* the make shown as the model
ViewOfModelFromMake(row) ==
    [ type          |-> row.DeviceType,
      make          |-> row.Make,
      model         |-> row.Make,
      serial_no     |-> row.SerialNo,
      hazard_class  |-> row.HazardClass,
      weight_kg     |-> row.WeightKg,
      status        |-> row.Status,
      dropoff_site  |-> row.DropOffSite,
      received_date |-> row.OrdDate,
      customer_name |-> row.CustFirstName \o <<SP>> \o row.CustLastName,
      timeline      |-> Timeline ]

\* lines 128-145
ViewOf(row) ==
    [ type          |-> row.DeviceType,
      make          |-> row.Make,
      model         |-> row.Model,
      serial_no     |-> row.SerialNo,
      hazard_class  |-> row.HazardClass,
      weight_kg     |-> row.WeightKg,
      status        |-> row.Status,
      dropoff_site  |-> row.DropOffSite,
      received_date |-> row.OrdDate,
      customer_name |-> row.CustFirstName \o <<SP>> \o row.CustLastName,
      timeline      |-> Timeline ]

\* the except clause raises again
LkExceptReraises(p) ==
    /\ loc' = [loc EXCEPT ![p] = [Idle EXCEPT !.kind = "lookup", !.mac = loc[p].mac,
                                              !.seen = loc[p].seen, !.exc = "StoreError"]]
    /\ Goto(p, "raised")

\* lines 147-149: the except clause prints and returns None; nothing closes
\* the connection
LkExcept(p) ==
    /\ loc' = [loc EXCEPT ![p] = [Idle EXCEPT !.kind = "lookup", !.mac = loc[p].mac,
                                              !.seen = loc[p].seen, !.exc = "StoreError"]]
    /\ Goto(p, "lk_done")

\* lines 93-99: trim, return None for an empty MAC, else connect and open a
\* cursor
BeginLookup(p) ==
    /\ Dispatch(p)
    /\ calls' = calls + 1
    /\ \E m \in LookupInputs :
          LET fresh == [Idle EXCEPT !.kind = "lookup", !.mac = Strip(m),
                                    !.seen = DeviceIds]
          IN  \/ /\ Strip(m) = <<>>
                 /\ loc' = [loc EXCEPT ![p] = fresh]
                 /\ Goto(p, "lk_done")
                 /\ UNCHANGED conn
              \/ /\ Strip(m) # <<>>
                 /\ \/ /\ loc' = [loc EXCEPT ![p] = fresh]
                       /\ conn' = [conn EXCEPT ![p] = "open"]
                       /\ Goto(p, "lk_query")
                    \/ \* get_connection() raises
                       /\ loc' = [loc EXCEPT ![p] = [fresh EXCEPT !.exc = "StoreError"]]
                       /\ Goto(p, "lk_done")
                       /\ UNCHANGED conn
                    \/ \* conn.cursor() raises
                       /\ loc' = [loc EXCEPT ![p] = [fresh EXCEPT !.exc = "StoreError"]]
                       /\ conn' = [conn EXCEPT ![p] = "open"]
                       /\ Goto(p, "lk_done")
    /\ UNCHANGED <<db, tx, seq, issued, qr_files, today, log, web>>

\* a query that reads the rows of open transactions too
LookupSeesPending ==
    [k \in Tables |-> db[k] \cup UNION {tx[q][k] : q \in WorkerSet}]

\* lines 97-101: the query runs on a connection of its own, so it reads the
\* committed rows and none of an open transaction
LookupSees == db

\* lines 101-145: execute, fetchone, close, compose the view
LkQuery(p) ==
    /\ pc[p] = "lk_query"
    /\ LET rows == JoinByMac(LookupSees, loc[p].mac)
       IN  \/ /\ rows # {}
              /\ \E r \in rows : loc' = [loc EXCEPT ![p].result = {ViewOf(r)}]
              /\ conn' = [conn EXCEPT ![p] = "closed"]
              /\ Goto(p, "lk_done")
           \/ /\ rows = {}
              /\ conn' = [conn EXCEPT ![p] = "closed"]
              /\ Goto(p, "lk_done")
              /\ UNCHANGED loc
           \/ \* execute or fetchone raises
              /\ LkExcept(p)
              /\ UNCHANGED conn
    /\ UNCHANGED <<db, tx, seq, issued, qr_files, today, log, calls, web>>

\* ---------------------------------------------------------- environment
\* the caller has the outcome; the worker is free for the next request
Return(p) ==
    /\ pc[p] \in {"returned", "raised", "lk_done"}
    /\ loc' = [loc EXCEPT ![p] = Idle]
    /\ conn' = [conn EXCEPT ![p] = "none"]
    /\ Goto(p, "idle")
    /\ UNCHANGED <<db, tx, seq, issued, qr_files, today, log, calls, web>>

Next ==
    \/ \E p \in WorkerSet : BeginIntake(p)
    \/ \E p \in WorkerSet : CustSelect(p)
    \/ \E p \in WorkerSet : CustCreate(p)
    \/ \E p \in WorkerSet : OrdCreate(p)
    \/ \E p \in WorkerSet : DevCreate(p)
    \/ \E p \in WorkerSet : LineInsert(p)
    \/ \E p \in WorkerSet : Commit(p)
    \/ \E p \in WorkerSet : BeginLookup(p)
    \/ \E p \in WorkerSet : LkQuery(p)
    \/ \E p \in WorkerSet : Return(p)

Spec == Init /\ [][Next]_vars

\* ------------------------------------------------------------ the web layer
\* line 229 of the intake route: the tracking address kept in the session
RouteTrackUrl(result) == BASE_TRACK_URL \o result.mac_addr

\* app.py lines 52-63
EMPLOYEE_USERS ==
    [ tech01  |-> [password |-> <<"Pass123!">>, role |-> "Tech"],
      admin01 |-> [password |-> <<"Admin123!">>, role |-> "Admin"] ]

\* the names and passwords posted to the login form
Logins ==
    { <<<<"tech01", SP>>, <<"Pass123!">>>>,
      <<<<"tech01">>, <<"bad">>>>,
      <<<<"admin01">>, <<SP, "Admin123!">>>>,
      <<<<"ghost">>, <<"Pass123!">>>>,
      <<<<>>, <<>>>> }

\* the browser's requests are served one after the other, by the first worker
WebWorker == Workers[1]

ServerFree == pc[WebWorker] = "idle"

\* EMPLOYEE_USERS.get(username): a login handle is one glyph
UsersGet(username) ==
    IF Len(username) = 1 /\ username[1] \in DOMAIN EMPLOYEE_USERS
    THEN {EMPLOYEE_USERS[username[1]]}
    ELSE {}

\* session[key] = value
SessionSet(s, key, value) ==
    [k \in DOMAIN s \cup {key} |-> IF k = key THEN value ELSE s[k]]

\* a logout that keeps the user in the session
SessionClearKeepsUser(s) ==
    [k \in DOMAIN s \cap {"employee_username"} |-> s[k]]

\* session.clear()
SessionClear(s) == NoSession

Respond(route, out) == resp' = [route |-> route, out |-> out]

\* lines 146-171, POST
EmployeeLogin ==
    /\ ServerFree
    /\ \E cred \in Logins :
          LET username == Strip(cred[1])
              password == Strip(cred[2])
              user     == UsersGet(username)
          IN  IF user # {} /\ \A u \in user : u.password = password
              THEN /\ session' =
                        SessionSet(SessionSet(session, "employee_username", username[1]),
                                   "employee_role", EMPLOYEE_USERS[username[1]].role)
                   /\ auth' = username[1]
                   /\ Respond("employee_login", "redirect:employee_dashboard")
              ELSE /\ Respond("employee_login", "employee_login.html:error")
                   /\ UNCHANGED <<session, auth>>
    /\ UNCHANGED <<db, tx, seq, issued, qr_files, today, pc, loc, conn, log, calls,
                   invoked>>

\* lines 174-180
EmployeeLogout ==
    /\ ServerFree
    /\ session' = SessionClear(session)
    /\ auth' = ""
    /\ Respond("employee_logout", "redirect:employee_login")
    /\ UNCHANGED <<db, tx, seq, issued, qr_files, today, pc, loc, conn, log, calls,
                   invoked>>

\* lines 183-200
EmployeeDashboard ==
    /\ ServerFree
    /\ IF "employee_username" \notin DOMAIN session
          \/ session["employee_username"] = ""
       THEN Respond("employee_dashboard", "redirect:employee_login")
       ELSE Respond("employee_dashboard", "employee_dashboard.html")
    /\ UNCHANGED <<db, tx, seq, issued, qr_files, today, pc, loc, conn, log, calls,
                   session, auth, invoked>>

\* lines 215-220: the intake form is asked for
EmployeeIntakeGet ==
    /\ ServerFree
    /\ IF "employee_username" \notin DOMAIN session
       THEN Respond("employee_intake", "redirect:employee_login")
       ELSE Respond("employee_intake", "employee_intake.html")
    /\ UNCHANGED <<db, tx, seq, issued, qr_files, today, pc, loc, conn, log, calls,
                   session, auth, invoked>>

\* lines 215-225: the intake form is posted; register_device_with_order is
\* called with the session's user
EmployeeIntakePost ==
    /\ ServerFree
    /\ \/ /\ "employee_username" \notin DOMAIN session
          /\ Respond("employee_intake", "redirect:employee_login")
          /\ UNCHANGED <<pc, loc, conn, calls, invoked>>
       \/ /\ "employee_username" \in DOMAIN session
          /\ calls < MaxCalls
          /\ calls' = calls + 1
          /\ \E form \in Forms :
                StartIntake(WebWorker, form, session["employee_username"])
          /\ invoked' = invoked \cup {[ user |-> session["employee_username"],
                                        auth |-> auth ]}
          /\ Respond("employee_intake", "running")
    /\ UNCHANGED <<db, tx, seq, issued, qr_files, today, log, session, auth>>

\* lines 228-248: the call has returned or raised
EmployeeIntakeDone ==
    /\ pc[WebWorker] \in {"returned", "raised"}
    /\ IF pc[WebWorker] = "returned"
       THEN /\ \E res \in loc[WebWorker].result :
                  session' = SessionSet(SessionSet(session, "last_mac", res.mac_addr),
                                        "last_track_url", RouteTrackUrl(res))
            /\ Respond("employee_intake", "redirect:employee_qr_page")
       ELSE /\ Respond("employee_intake", "employee_intake.html:error")
            /\ UNCHANGED session
    /\ loc' = [loc EXCEPT ![WebWorker] = Idle]
    /\ conn' = [conn EXCEPT ![WebWorker] = "none"]
    /\ Goto(WebWorker, "idle")
    /\ UNCHANGED <<db, tx, seq, issued, qr_files, today, log, calls, auth, invoked>>

WebNext ==
    \/ EmployeeLogin
    \/ EmployeeLogout
    \/ EmployeeDashboard
    \/ EmployeeIntakeGet
    \/ EmployeeIntakePost
    \/ CustSelect(WebWorker)
    \/ CustCreate(WebWorker)
    \/ OrdCreate(WebWorker)
    \/ DevCreate(WebWorker)
    \/ LineInsert(WebWorker)
    \/ Commit(WebWorker)
    \/ EmployeeIntakeDone

WebSpec == Init /\ [][WebNext]_vars

\* ------------------------------------------------------------ properties
InFlight ==
    {"cust_select", "cust_create", "ord_create", "dev_create", "line_insert", "commit"}

Done == {"returned", "raised", "lk_done"}

\* the committed rows are those of the committed intakes, each with all its rows
AllOrNothing ==
    /\ \A rec \in log :
          /\ \E c \in db.Customer : c.CustNo = rec.cust_no
          /\ \E r \in db.RecyclingOrder : r.OrdNo = rec.ord_no /\ r.CustNo = rec.cust_no
          /\ \E d \in db.Device : d.DeviceID = rec.device_id
          /\ \E l \in db.OrdLine : l.OrdNo = rec.ord_no /\ l.DeviceID = rec.device_id
    /\ \A c \in db.Customer : \E rec \in log : rec.cust_no = c.CustNo
    /\ \A r \in db.RecyclingOrder : \E rec \in log : rec.ord_no = r.OrdNo
    /\ \A d \in db.Device : \E rec \in log : rec.device_id = d.DeviceID
    /\ \A l \in db.OrdLine :
          \E rec \in log : rec.ord_no = l.OrdNo /\ rec.device_id = l.DeviceID

\* a call that ends in an exception leaves the committed rows as they were
FailureKeepsStore ==
    \A p \in WorkerSet :
        (pc[p] # "raised" /\ pc'[p] = "raised") =>
            db' = db /\ loc'[p].exc # "none" /\ tx'[p] = EmptyTx

\* C1: an intake that fails at any step leaves the committed Customer,
\* RecyclingOrder, Device and OrdLine rows unchanged and raises to its caller;
\* in every committed state all rows of an intake exist or none does.
C1_IntakeIsAtomic == []AllOrNothing /\ [][FailureKeepsStore]_vars

\* the only call so far failed after its customer, order and device keys were
\* drawn and its QR code was saved, and no row of it is committed
C1_Witness ==
    \E p \in WorkerSet :
        /\ pc[p] = "raised"
        /\ calls = 1
        /\ seq = [customer |-> 1, order |-> 1, device |-> 1]
        /\ qr_files # {}
        /\ db = EmptyTx

\* C2: the committed Customer table holds at most one row per non-empty email,
\* also when intakes with the same email interleave between SELECT and INSERT.
C2_OneCustomerPerEmail ==
    \A c1, c2 \in db.Customer :
        (c1.CustEmail = c2.CustEmail /\ c1.CustEmail # <<>>) => c1.CustNo = c2.CustNo

\* an intake past the Employee lookup has a known caller and that caller's key
CallerResolved ==
    \A p \in WorkerSet :
        pc[p] \in InFlight =>
            \E e \in Employee : e.EmpEmail = loc[p].user /\ e.EmpNo = loc[p].emp_no

\* the step that rejects an unknown caller writes nothing and draws nothing
RejectionIsPure ==
    \A p \in WorkerSet :
        (loc[p].exc # "NoEmployee" /\ loc'[p].exc = "NoEmployee") =>
            /\ pc[p] = "idle" /\ pc'[p] = "raised"
            /\ db' = db /\ tx' = tx /\ seq' = seq /\ issued' = issued
            /\ qr_files' = qr_files /\ log' = log

\* C3: an intake whose caller matches no Employee row fails before any write:
\* no row is inserted, no sequence value is drawn, no QR code is generated.
C3_UnknownCallerRejected == []CallerResolved /\ [][RejectionIsPure]_vars

C3_Witness == \E p \in WorkerSet : pc[p] = "raised" /\ loc[p].exc = "NoEmployee"

StrictlyIncreasing(s) == \A i, j \in DOMAIN s : i < j => s[i] < s[j]

Range(s) == {s[i] : i \in DOMAIN s}

\* C4: the keys each sequence issues are pairwise distinct and increase in
\* issue order, whether the intakes that drew them committed or rolled back;
\* every key in use was issued, and no two intakes use the same key.
C4_KeysNeverReused ==
    /\ StrictlyIncreasing(issued.customer)
    /\ StrictlyIncreasing(issued.order)
    /\ StrictlyIncreasing(issued.device)
    /\ \A r1, r2 \in log :
          r1 # r2 =>
            /\ r1.device_id # r2.device_id
            /\ r1.ord_no # r2.ord_no
            /\ (~r1.reused /\ ~r2.reused) => r1.cust_no # r2.cust_no
    /\ \A rec \in log :
          /\ rec.device_id \in Range(issued.device)
          /\ rec.ord_no \in Range(issued.order)
          /\ ~rec.reused => rec.cust_no \in Range(issued.customer)
    /\ \A p, q \in WorkerSet :
          (p # q /\ pc[p] \in InFlight /\ pc[q] \in InFlight) =>
            /\ loc[p].ord_no = 0 \/ loc[p].ord_no # loc[q].ord_no
            /\ loc[p].device_id = 0 \/ loc[p].device_id # loc[q].device_id

\* device key 1 went to an intake that rolled back; key 2 is committed
C4_Witness ==
    /\ \A p \in WorkerSet : pc[p] \notin InFlight
    /\ \E d \in db.Device : d.DeviceID = 2
    /\ \A d \in db.Device : d.DeviceID # 1

\* C5: two successful intakes run one after the other with the same non-empty
\* email give two devices and two orders on one and the same Customer row; a
\* successful intake whose non-empty email matched no Customer row creates one.
C5_SameEmailSharesCustomer ==
    [][\A p \in WorkerSet :
          (pc[p] = "commit" /\ pc'[p] = "returned"
                                 /\ N(p).customer_email # <<>>) =>
            /\ \A k \in loc[p].seen : loc[p].cust_no_to_use = k
            /\ \A rec \in log :
                  rec.cust_no \in loc[p].seen =>
                    /\ rec.device_id # loc[p].device_id
                    /\ rec.ord_no # loc[p].ord_no
            /\ loc[p].existing_cust_no = 0 =>
                  /\ \A c \in db.Customer : c.CustNo # loc[p].cust_no_to_use
                  /\ \E c \in db'.Customer : c.CustNo = loc[p].cust_no_to_use]_vars

\* C6: no two committed Device rows hold the same MAC address.
C6_UniqueMac ==
    \A d1, d2 \in db.Device :
        d1.IotMacAddr = d2.IotMacAddr => d1.DeviceID = d2.DeviceID

\* C7: when a call of register_device_with_order or get_device_by_mac has
\* returned or raised, the connection it opened is closed.
C7_ConnectionsReleased ==
    \A p \in WorkerSet : pc[p] \in Done => conn[p] # "open"

MacOf(rec) == NormOf[rec.form].mac_addr

CustomerOf(rec) == CHOOSE c \in db.Customer : c.CustNo = rec.cust_no

\* the view the submitted fields of a committed intake give, after coercion
SubmittedView(rec) ==
    LET n == NormOf[rec.form]
    IN  [ type          |-> n.device_type,
          make          |-> n.make,
          model         |-> n.model,
          serial_no     |-> n.serial_no,
          hazard_class  |-> n.hazard_class,
          weight_kg     |-> n.weight_kg,
          status        |-> n.status,
          dropoff_site  |-> n.dropoff_site,
          received_date |-> ToCharDate(today),
          customer_name |-> n.cust_first \o <<SP>> \o n.cust_last,
          timeline      |-> <<"Received", "Under Recycle Check", "In Laboratory",
                              "Recycled">> ]

\* the same, with the name kept on the Customer row the intake references
StoredView(rec) ==
    [SubmittedView(rec) EXCEPT
        !.customer_name = CustomerOf(rec).CustFirstName \o <<SP>>
                            \o CustomerOf(rec).CustLastName]

\* a lookup that met no store error has ended
LookupEnded(p) == pc[p] = "lk_done" /\ loc[p].kind = "lookup" /\ loc[p].exc = "none"

\* C8 as stated: a lookup that follows a successful intake with a non-empty
\* MAC address returns the fields that intake submitted, after coercion, the
\* customer name included, and the four fixed stages.
C8_LookupReturnsSubmitted ==
    \A p \in WorkerSet :
        LookupEnded(p) =>
            \A rec \in log :
                (rec.device_id \in loc[p].seen /\ MacOf(rec) = loc[p].mac
                                               /\ loc[p].mac # <<>>) =>
                    loc[p].result = {SubmittedView(rec)}

\* C8 amended: such a lookup returns a view, and a view returned for a MAC
\* address is that of a committed intake with that address: its submitted
\* device fields and drop-off site after coercion, the date of the intake, the
\* four fixed stages, and the name kept on the Customer row the intake
\* references, which is the submitted name only if the intake created the row.
C8_LookupReturnsStored ==
    /\ \A p \in WorkerSet :
          LookupEnded(p) =>
            LET cands == {rec \in log : MacOf(rec) = loc[p].mac}
            IN  /\ loc[p].result \subseteq {StoredView(rec) : rec \in cands}
                /\ (\E rec \in cands : rec.device_id \in loc[p].seen) =>
                      loc[p].result # {}
                /\ (Cardinality(cands) = 1 /\ loc[p].result # {}) =>
                      \A rec \in cands : loc[p].result = {StoredView(rec)}
    /\ \A rec \in log :
          ~rec.reused => StoredView(rec) = SubmittedView(rec)

\* a lookup returned the view of an intake that reused a Customer row whose
\* name is not the name the intake submitted
C8_Witness ==
    \E p \in WorkerSet :
        /\ LookupEnded(p)
        /\ loc[p].result # {}
        /\ \E rec \in log :
              /\ rec.reused
              /\ MacOf(rec) = loc[p].mac
              /\ rec.device_id \in loc[p].seen
              /\ loc[p].result = {StoredView(rec)}
              /\ StoredView(rec) # SubmittedView(rec)

\* C9: every committed Device row is referenced by exactly one OrdLine row,
\* with line number 1, of exactly one RecyclingOrder, whose CustNo is an
\* existing Customer row and the device's OrigCustNo, and whose EmpNo is the key
\* of the Employee the caller of that intake resolves to.
C9_DeviceOwnership ==
    \A d \in db.Device :
        LET lines == {l \in db.OrdLine : l.DeviceID = d.DeviceID}
        IN  /\ Cardinality(lines) = 1
            /\ \A l \in lines :
                  LET ords == {r \in db.RecyclingOrder : r.OrdNo = l.OrdNo}
                  IN  /\ l.LineNo = 1
                      /\ Cardinality({x \in db.OrdLine : x.OrdNo = l.OrdNo}) = 1
                      /\ Cardinality(ords) = 1
                      /\ \A r \in ords :
                            /\ Cardinality({c \in db.Customer : c.CustNo = r.CustNo}) = 1
                            /\ r.CustNo = d.OrigCustNo
                            /\ \E rec \in log :
                                  /\ rec.device_id = d.DeviceID
                                  /\ rec.ord_no = r.OrdNo
                                  /\ \E e \in Employee :
                                        e.EmpEmail = rec.user /\ e.EmpNo = r.EmpNo

\* two committed devices of two orders belong to one customer
C9_Witness ==
    \E d1, d2 \in db.Device :
        d1.DeviceID # d2.DeviceID /\ d1.OrigCustNo = d2.OrigCustNo

\* C10: every Device row, pending or committed, names a QR file that is
\* stored, under the name made from the device key; a generation that failed
\* left no Device row.
C10_ArtifactBeforeDevice ==
    \A d \in db.Device \cup UNION {tx[p].Device : p \in WorkerSet} :
        /\ d.QRCode = QrFilename(d.DeviceID)
        /\ \E f \in qr_files : f.name = d.QRCode

\* a device is committed with its file, and a device key was drawn for which
\* no file was stored
C10_Witness ==
    /\ db.Device # {}
    /\ Cardinality(qr_files) < seq.device
    /\ \A p \in WorkerSet : pc[p] \notin InFlight

\* C11: a lookup never ends in an exception; with an empty MAC address after
\* trimming it returns None and has neither connected nor queried; with no
\* joined row for the MAC address, and after any store error, it returns None.
C11_LookupNeverRaises ==
    \A p \in WorkerSet :
        loc[p].kind = "lookup" =>
            /\ pc[p] \in {"lk_query", "lk_done"}
            /\ pc[p] = "lk_query" => loc[p].mac # <<>>
            /\ pc[p] = "lk_done" =>
                  /\ loc[p].mac = <<>> =>
                        loc[p].result = {} /\ conn[p] = "none" /\ loc[p].exc = "none"
                  /\ loc[p].exc # "none" => loc[p].result = {}
                  /\ JoinByMac(db, loc[p].mac) = {} => loc[p].result = {}

\* a lookup of a committed MAC address met a store error and returned None,
\* and a lookup of a blank MAC address returned None
C11_Witness ==
    \E p, q \in WorkerSet :
        /\ pc[p] = "lk_done" /\ loc[p].kind = "lookup"
        /\ loc[p].exc = "StoreError" /\ loc[p].result = {}
        /\ JoinByMac(db, loc[p].mac) # {}
        /\ pc[q] = "lk_done" /\ loc[q].kind = "lookup" /\ loc[q].mac = <<>>

\* a submitted field that is absent, empty or whitespace only
BlankField(form, key) == Strip(FormGet(form, key, <<>>)) = <<>>

\* C12: a committed intake whose drop-off site, hazard class or status was
\* blank has 'Main Facility', 'Medium', 'Received' stored in its place; no
\* committed RecyclingOrder has a blank drop-off site and no committed Device
\* has a blank hazard class or status.
C12_BlankFieldsDefaulted ==
    /\ \A rec \in log :
          LET f == FormList[rec.form]
          IN  /\ \A r \in db.RecyclingOrder :
                    (r.OrdNo = rec.ord_no /\ BlankField(f, "dropoff_site")) =>
                        r.DropOffSite = <<"Main", SP, "Facility">>
              /\ \A d \in db.Device :
                    d.DeviceID = rec.device_id =>
                        /\ BlankField(f, "hazard_class") => d.HazardClass = <<"Medium">>
                        /\ BlankField(f, "status") => d.Status = <<"Received">>
    /\ \A r \in db.RecyclingOrder : Strip(r.DropOffSite) # <<>>
    /\ \A d \in db.Device : Strip(d.HazardClass) # <<>> /\ Strip(d.Status) # <<>>

\* C13: the Customer row an intake creates holds the first whitespace-delimited
\* token of the submitted name as first name and the other tokens joined by
\* single spaces as last name; a name of one token has an empty last name; a
\* blank name gives 'Unknown', 'Customer'.
C13_NameSplitStored ==
    \A rec \in log :
        ~rec.reused =>
            LET toks == Split(FormGet(FormList[rec.form], "customer_name", <<>>))
                c    == CustomerOf(rec)
            IN  IF toks = <<>>
                THEN c.CustFirstName = <<"Unknown">> /\ c.CustLastName = <<"Customer">>
                ELSE /\ c.CustFirstName = toks[1]
                     /\ c.CustLastName = JoinSp(Tail(toks))

\* C14: every committed intake with an empty email inserted a Customer row of
\* its own under a key drawn for it, also when a row with an empty email and
\* the same first and last name existed: two such intakes have two rows.
C14_EmptyEmailNeverDedups ==
    /\ \A rec \in log :
          NormOf[rec.form].customer_email = <<>> =>
            /\ ~rec.reused
            /\ rec.cust_no \in Range(issued.customer)
            /\ Cardinality({c \in db.Customer : c.CustNo = rec.cust_no}) = 1
            /\ \A other \in log : other # rec => other.cust_no # rec.cust_no
    /\ \A p \in WorkerSet :
          (pc[p] \in InFlight /\ N(p).customer_email = <<>>) =>
              loc[p].existing_cust_no = 0

\* two committed intakes without email and with the same name have two
\* Customer rows that differ in the key only
C14_Witness ==
    \E r1, r2 \in log :
        /\ r1 # r2
        /\ NormOf[r1.form].customer_email = <<>>
        /\ NormOf[r2.form].customer_email = <<>>
        /\ CustomerOf(r1).CustNo # CustomerOf(r2).CustNo
        /\ CustomerOf(r1).CustFirstName = CustomerOf(r2).CustFirstName
        /\ CustomerOf(r1).CustLastName = CustomerOf(r2).CustLastName
        /\ CustomerOf(r1).CustEmail = CustomerOf(r2).CustEmail

\* weight texts: empty, blank, unparseable, numbers with and without blanks
\* around them, two numbers
WeightTexts ==
    { <<>>, <<SP>>, <<SP, SP>>, <<"abc">>, <<"abc", SP>>, <<"2.5">>,
      <<SP, "7", SP>>, <<"1.0">>, <<"2.5", SP, "7">> }

\* the number a weight text stands for, in tenths: the text is one number with
\* blanks around it, or the weight is 1.0
WeightOf(text) ==
    LET toks == Split(text)
    IN  IF Len(toks) = 1 /\ Len(toks[1]) = 1 /\ toks[1][1] \in {"2.5", "7", "1.0"}
        THEN (CASE toks[1][1] = "2.5" -> 25 [] toks[1][1] = "7" -> 70
                [] toks[1][1] = "1.0" -> 10)
        ELSE 10

\* every weight text parses to the number it stands for
WeightTextsParsed ==
    /\ \A w \in WeightTexts : ParseWeight(w, DefaultWeight) = WeightOf(w)
    /\ \A f \in Forms : NormOf[f].weight_kg \in {10, 25, 70}

\* C15: a weight text that is a number is stored as that number, and an
\* absent, empty, blank or unparseable weight is stored as 1.0; the intake
\* goes on through the same steps and commits.
C15_WeightNeverAborts ==
    /\ WeightTextsParsed
    /\ \A rec \in log :
          \A d \in db.Device :
              d.DeviceID = rec.device_id =>
                  d.WeightKg = IF "weight_kg" \in DOMAIN FormList[rec.form]
                               THEN WeightOf(FormList[rec.form].weight_kg)
                               ELSE 10

\* intakes with the weights '2.5 ', 'abc' and none are committed, with the
\* weights 2.5, 1.0 and 1.0
C15_Witness ==
    \E r1, r2, r3 \in log :
        /\ FormGet(FormList[r1.form], "weight_kg", <<>>) = <<"2.5", SP>>
        /\ FormGet(FormList[r2.form], "weight_kg", <<>>) = <<"abc">>
        /\ "weight_kg" \notin DOMAIN FormList[r3.form]
        /\ \E d1, d2, d3 \in db.Device :
              /\ d1.DeviceID = r1.device_id /\ d1.WeightKg = 25
              /\ d2.DeviceID = r2.device_id /\ d2.WeightKg = 10
              /\ d3.DeviceID = r3.device_id /\ d3.WeightKg = 10

\* C16: a successful intake returns the file name '<device key>.png', which is
\* the QRCode of the committed Device row with the returned key; the returned
\* MAC address is the trimmed submitted one and is stored on that row; the
\* stored file holds the base tracking URL followed by that MAC address, which
\* is the tracking address the intake route makes from the result.
C16_ResultMatchesArtifact ==
    \A p \in WorkerSet :
        pc[p] = "returned" =>
            /\ Cardinality(loc[p].result) = 1
            /\ \A res \in loc[p].result :
                  /\ res.qr_filename = IntToStr(res.device_id) \o <<".png">>
                  /\ \E rec \in log :
                        /\ rec.device_id = res.device_id
                        /\ res.mac_addr = Strip(FormList[rec.form].mac_address)
                  /\ Cardinality({d \in db.Device : d.DeviceID = res.device_id}) = 1
                  /\ \A d \in db.Device :
                        d.DeviceID = res.device_id =>
                            d.QRCode = res.qr_filename /\ d.IotMacAddr = res.mac_addr
                  /\ Cardinality({f \in qr_files : f.name = res.qr_filename}) = 1
                  /\ \A f \in qr_files :
                        f.name = res.qr_filename =>
                            /\ f.payload = <<"http://localhost:5000/track/">> \o res.mac_addr
                            /\ f.payload = RouteTrackUrl(res)

\* an intake whose MAC address was submitted with a blank in front has
\* returned, after an intake that rolled back had drawn a device key
C16_Witness ==
    \E p \in WorkerSet :
        /\ pc[p] = "returned"
        /\ \E res \in loc[p].result :
              /\ res.mac_addr = <<"m2">>
              /\ res.device_id = 2
              /\ \A d \in db.Device : d.DeviceID # 1

\* a step of an intake that resolved its email to an existing Customer row
\* draws no customer key and writes no Customer row
ReuseWritesNothing ==
    \A p \in WorkerSet :
        ( /\ pc'[p] # pc[p]
          /\ loc[p].existing_cust_no # 0 \/ loc'[p].existing_cust_no # 0 ) =>
            /\ seq'.customer = seq.customer
            /\ issued'.customer = issued.customer
            /\ db'.Customer = db.Customer
            /\ tx'[p].Customer = {}

\* the Customer row of an intake that reused it is the row as its creator
\* wrote it
ReusedRowIsCreators ==
    \A rec \in log :
        rec.reused =>
            /\ NormOf[rec.form].customer_email # <<>>
            /\ \E creator \in log :
                  /\ ~creator.reused
                  /\ creator.cust_no = rec.cust_no
                  /\ \A c \in db.Customer :
                        c.CustNo = rec.cust_no =>
                            /\ c.CustFirstName = NormOf[creator.form].cust_first
                            /\ c.CustLastName = NormOf[creator.form].cust_last
                            /\ c.CustEmail = NormOf[rec.form].customer_email

\* C17: an intake whose non-empty email matches an existing Customer row
\* writes nothing to Customer and draws nothing from seq_customer; the row's
\* key, first name, last name and email are after the intake what they were,
\* whatever name the intake submitted.
C17_ReuseLeavesCustomer == []ReusedRowIsCreators /\ [][ReuseWritesNothing]_vars

\* a committed intake reused a Customer row under a name other than the one
\* it submitted
C17_Witness ==
    \E rec \in log :
        /\ rec.reused
        /\ CustomerOf(rec).CustFirstName # NormOf[rec.form].cust_first

\* C18: every stored QR file '<k>.png' is the file of a Device row with key k
\* that is committed or belongs to an intake still in flight; an intake that
\* was rolled back after its QR code was generated has left no file.
C18_NoOrphanArtifact ==
    \A f \in qr_files :
        \E d \in db.Device \cup UNION {tx[p].Device : p \in WorkerSet} :
            f.name = QrFilename(d.DeviceID)

\* the query step of a lookup
Queried(p) == pc[p] = "lk_query" /\ pc'[p] = "lk_done"

\* C19 as stated: a lookup of a MAC address that runs while an intake for
\* that address is in flight returns None, and a lookup that runs after an
\* intake for the address has committed returns a view.
C19_AbsentUntilCommitThenView ==
    [][\A p \in WorkerSet :
          Queried(p) =>
            /\ (\E q \in WorkerSet : pc[q] \in InFlight /\ N(q).mac_addr = loc[p].mac) =>
                  loc'[p].result = {}
            /\ (\E rec \in log : MacOf(rec) = loc[p].mac) =>
                  loc'[p].result # {}]_vars

\* C19 amended: a lookup reads committed rows only. The view it returns is
\* that of an intake with the MAC address that had committed when the query
\* ran, so with no such intake it returns None whatever rows are pending, and
\* it never returns the view of an intake that rolls back; with such an intake
\* it returns a view unless it meets a store error.
C19_LookupReadsCommitted ==
    [][\A p \in WorkerSet :
          Queried(p) =>
            LET cands == {rec \in log : MacOf(rec) = loc[p].mac}
            IN  /\ loc'[p].result \subseteq {StoredView(rec) : rec \in cands}
                /\ cands = {} => loc'[p].result = {}
                /\ (cands # {} /\ loc'[p].exc = "none") => loc'[p].result # {}]_vars

\* a lookup has returned None without a store error while an intake for its
\* MAC address has all its rows written and not committed, and no intake for
\* the address is committed
C19_Witness ==
    \E p, q \in WorkerSet :
        /\ LookupEnded(p) /\ loc[p].mac # <<>> /\ loc[p].result = {}
        /\ pc[q] = "commit" /\ N(q).mac_addr = loc[p].mac
        /\ \A rec \in log : MacOf(rec) # loc[p].mac

\* C20: register_device_with_order is called only while the session holds the
\* user of a successful login that no logout has followed, and is called with
\* that user; after a logout no intake is called before the next successful
\* login.
C20_IntakeOnlyWhenLoggedIn ==
    /\ \A i \in invoked :
          /\ i.auth # ""
          /\ i.user = i.auth
          /\ i.user \in DOMAIN EMPLOYEE_USERS
    /\ pc[WebWorker] \in InFlight =>
          auth # "" /\ loc[WebWorker].user = auth
    /\ "employee_username" \in DOMAIN session =>
          auth # "" /\ session["employee_username"] = auth
    /\ auth = "" => DOMAIN session = {}

\* after a call of the intake and a logout, a posted intake form was sent to
\* the login page; the calls so far were made for two users
C20_Witness ==
    /\ \E i, j \in invoked : i.user = "tech01" /\ j.user = "admin01"
    /\ auth = ""
    /\ resp = [route |-> "employee_intake", out |-> "redirect:employee_login"]

====
